---- MODULE Spec2Model ----
(***************************************************************************)
(* check_vllm.py: the VLLMChecker probe (check_health, get_models,         *)
(* generate_text), run_comprehensive_test and main, over an HTTP           *)
(* environment that answers each request with a response, an exception or  *)
(* nothing at all.                                                         *)
(* check_openwebui_models.py: its four checks, its generation test and    *)
(* the verdict it prints, over the same environment.                       *)
(*                                                                         *)
(* Python values are tagged records.  A Python string is the sequence of   *)
(* its characters, a dict is a function from keys to values, a list is a   *)
(* sequence.  An evaluation that may raise yields Ret(v) or Raise(e).      *)
(* Formatted text (f-strings) is the tuple of its parts.                   *)
(***************************************************************************)
EXTENDS Integers, Sequences, FiniteSets, TLC

VARIABLES
    pc,         \* position of the process: main, health, models, simple, complex, summary, exited,
                \* and ow_start, ow_web, ow_vllm, ow_health, ow_page, ow_gen for check_openwebui_models.py
    base_url,   \* VLLMChecker.base_url
    session,    \* attributes set on VLLMChecker.session
    net,        \* the HTTP call in progress: idle, pending, or done with its outcome
    sent,       \* every HTTP request put on the wire, in order
    calls,      \* number of probe methods invoked so far
    results,    \* results["tests"], in insertion order
    stdout,     \* lines printed
    uncaught,   \* exception that left main, or "none"
    exit_code,  \* exit status of the process, NotExited while it runs
    probe       \* a single probe method applied to one outcome of its HTTP call

vars == <<pc, base_url, session, net, sent, calls, results, stdout, uncaught, exit_code, probe>>

----------------------------------------------------------------------------
(* Python values *)

JNull == [t |-> "null"]
JNum(n) == [t |-> "num", n |-> n]
JStr(cs) == [t |-> "str", chars |-> cs]
JList(xs) == [t |-> "list", items |-> xs]
JObj(f) == [t |-> "obj", fields |-> f]
EmptyDict == JObj([k \in {} |-> JNull])
EmptyStr == JStr(<<>>)

Ret(v) == [ok |-> TRUE, val |-> v]
Raise(e) == [ok |-> FALSE, exc |-> e]

(* The exception classes that occur, each with its direct base classes. *)
Bases(c) ==
    CASE c = "ConnectTimeout" -> {"ConnectionError", "Timeout"}
      [] c = "ReadTimeout" -> {"Timeout"}
      [] c = "ConnectionError" -> {"RequestException"}
      [] c = "Timeout" -> {"RequestException"}
      [] c = "ChunkedEncodingError" -> {"RequestException"}
      [] c = "InvalidSchema" -> {"RequestException", "ValueError"}
      [] c = "JSONDecodeError" -> {"InvalidJSONError"}
      [] c = "InvalidJSONError" -> {"RequestException"}
      [] c = "RequestException" -> {"OSError"}
      [] c \in {"OSError", "ValueError", "TypeError", "AttributeError", "LookupError"} -> {"Exception"}
      [] c \in {"IndexError", "KeyError"} -> {"LookupError"}
      [] OTHER -> {}

RECURSIVE IsInstance(_, _)
IsInstance(e, cls) == e = cls \/ \E b \in Bases(e) : IsInstance(b, cls)

(* str(e) *)
StrOf(e) == <<"exception", e>>

(* d.get(key, default) *)
PyGet(v, key, default) ==
    IF v.t = "obj"
    THEN Ret(IF key \in DOMAIN v.fields THEN v.fields[key] ELSE default)
    ELSE Raise("AttributeError")

(* v[0] *)
PyIndex0(v) ==
    CASE v.t = "list" -> IF Len(v.items) > 0 THEN Ret(v.items[1]) ELSE Raise("IndexError")
      [] v.t = "str" -> IF Len(v.chars) > 0 THEN Ret(JStr(<<v.chars[1]>>)) ELSE Raise("IndexError")
      [] v.t = "obj" -> Raise("KeyError")
      [] OTHER -> Raise("TypeError")

(* len(v) *)
PyLen(v) ==
    CASE v.t = "list" -> Ret(Len(v.items))
      [] v.t = "str" -> Ret(Len(v.chars))
      [] v.t = "obj" -> Ret(Cardinality(DOMAIN v.fields))
      [] OTHER -> Raise("TypeError")

Min(a, b) == IF a < b THEN a ELSE b

(* v[:n] *)
PySlice(v, n) ==
    CASE v.t = "list" -> Ret(JList(SubSeq(v.items, 1, Min(n, Len(v.items)))))
      [] v.t = "str" -> Ret(JStr(SubSeq(v.chars, 1, Min(n, Len(v.chars)))))
      [] OTHER -> Raise("TypeError")

(* The elements a for loop over v visits; iterating a dict or a string    *)
(* yields strings, which is all the loop body can tell about them.        *)
PyIter(v) ==
    CASE v.t = "list" -> Ret(v.items)
      [] v.t = "str" -> Ret([i \in 1..Len(v.chars) |-> JStr(<<v.chars[i]>>)])
      [] v.t = "obj" -> Ret([i \in 1..Cardinality(DOMAIN v.fields) |-> EmptyStr])
      [] OTHER -> Raise("TypeError")

----------------------------------------------------------------------------
(* HTTP: bodies, responses, outcomes of one call *)

M1 == JStr(<<"m", "1">>)
Hi == JStr(<<"H", "i">>)

(* response.json(): the value a body text parses to, or JSONDecodeError. *)
json(text) ==
    CASE text = "{}" -> Ret(EmptyDict)
      [] text = "[]" -> Ret(JList(<<>>))
      [] text = "null" -> Ret(JNull)
      [] text = "{\"status\":\"ok\"}" -> Ret(JObj([status |-> JStr(<<"o", "k">>)]))
      [] text = "{\"data\":[]}" -> Ret(JObj([data |-> JList(<<>>)]))
      [] text = "{\"data\":[{\"id\":\"m1\",\"max_model_len\":4096}]}" ->
            Ret(JObj([data |-> JList(<<JObj([id |-> M1, max_model_len |-> JNum(4096)])>>)]))
      [] text = "{\"data\":[{\"id\":\"m1\"},{}]}" ->
            Ret(JObj([data |-> JList(<<JObj([id |-> M1]), EmptyDict>>)]))
      [] text = "{\"data\":null}" -> Ret(JObj([data |-> JNull]))
      [] text = "{\"data\":[\"m1\"]}" -> Ret(JObj([data |-> JList(<<M1>>)]))
      [] text = "{\"choices\":[]}" -> Ret(JObj([choices |-> JList(<<>>)]))
      [] text = "{\"choices\":[{}]}" -> Ret(JObj([choices |-> JList(<<EmptyDict>>)]))
      [] text = "{\"choices\":[{\"message\":{\"content\":\"Hi\"}}]}" ->
            Ret(JObj([choices |-> JList(<<JObj([message |-> JObj([content |-> Hi])])>>)]))
      [] text = "{\"choices\":[{\"message\":{\"content\":null}}]}" ->
            Ret(JObj([choices |-> JList(<<JObj([message |-> JObj([content |-> JNull])])>>)]))
      [] text = "{\"choices\":null}" -> Ret(JObj([choices |-> JNull]))
      [] text = "{\"choices\":{}}" -> Ret(JObj([choices |-> EmptyDict]))
      [] OTHER -> Raise("JSONDecodeError")

(* The status codes the server answers with: 200 and the first          *)
(* NumOtherCodes of the others.                                          *)
NumOtherCodes == 2
OtherCodes == <<204, 503, 404, 500>>
StatusCodes == {200} \cup {OtherCodes[i] : i \in 1..NumOtherCodes}

HealthBodies == {"", "OK", "{\"status\":\"ok\"}"}

ModelsBodies ==
    {"", "Service Unavailable", "[]", "{}", "{\"data\":[]}",
     "{\"data\":[{\"id\":\"m1\",\"max_model_len\":4096}]}",
     "{\"data\":[{\"id\":\"m1\"},{}]}", "{\"data\":null}", "{\"data\":[\"m1\"]}"}

ChatBodies ==
    {"", "Service Unavailable", "null", "{}", "{\"choices\":[]}", "{\"choices\":[{}]}",
     "{\"choices\":[{\"message\":{\"content\":\"Hi\"}}]}",
     "{\"choices\":[{\"message\":{\"content\":null}}]}",
     "{\"choices\":null}", "{\"choices\":{}}"}

AllBodies == HealthBodies \cup ModelsBodies \cup ChatBodies

Response(code, text) == [kind |-> "response", status_code |-> code, text |-> text, exc |-> "none"]
Raised(e) == [kind |-> "raise", status_code |-> 0, text |-> "", exc |-> e]

(* Exceptions session.get / session.post raise once the request is on its way. *)
TransportErrors == {"ConnectionError", "ChunkedEncodingError"}
TimeoutErrors == {"ConnectTimeout", "ReadTimeout"}

(* Every outcome a caller of session.get / session.post can see. *)
AllOutcomes ==
    {Response(c, b) : c \in StatusCodes, b \in AllBodies}
        \cup {Raised(e) : e \in TransportErrors \cup TimeoutErrors \cup {"InvalidSchema"}}

----------------------------------------------------------------------------
(* VLLMChecker *)

HttpError(o) == <<"HTTP", o.status_code, o.text>>

check_health_try(o) ==
    IF o.kind = "raise" THEN Raise(o.exc)
    ELSE IF o.status_code = 200
    THEN LET body == IF o.text # "" THEN json(o.text)
                     ELSE Ret(JObj([message |-> JStr(<<"O", "K">>)]))
         IN  IF body.ok THEN Ret([status |-> "healthy", response |-> body.val]) ELSE body
    ELSE Ret([status |-> "unhealthy", error |-> HttpError(o)])

(* check_health without its last handler, except Exception. *)
check_health_without_catch_all(o) ==
    LET r == check_health_try(o) IN
    IF r.ok THEN r
    ELSE IF IsInstance(r.exc, "ConnectionError")
    THEN Ret([status |-> "unreachable", error |-> <<"Cannot connect to vLLM service. Is it running?">>])
    ELSE IF IsInstance(r.exc, "Timeout")
    THEN Ret([status |-> "timeout", error |-> <<"Request timed out">>])
    ELSE r

(* check_health with except Exception placed first, ahead of the two specific handlers. *)
check_health_catch_all_first(o) ==
    LET r == check_health_try(o) IN
    IF r.ok THEN r
    ELSE IF IsInstance(r.exc, "Exception")
    THEN Ret([status |-> "error", error |-> StrOf(r.exc)])
    ELSE r

check_health(o) ==
    LET r == check_health_try(o) IN
    IF r.ok THEN r
    ELSE IF IsInstance(r.exc, "ConnectionError")
    THEN Ret([status |-> "unreachable", error |-> <<"Cannot connect to vLLM service. Is it running?">>])
    ELSE IF IsInstance(r.exc, "Timeout")
    THEN Ret([status |-> "timeout", error |-> <<"Request timed out">>])
    ELSE IF IsInstance(r.exc, "Exception")
    THEN Ret([status |-> "error", error |-> StrOf(r.exc)])
    ELSE r

(* get_models testing for any 2xx status instead of 200. *)
get_models_try_any_2xx(o) ==
    IF o.kind = "raise" THEN Raise(o.exc)
    ELSE IF o.status_code >= 200 /\ o.status_code < 300
    THEN LET body == json(o.text)
         IN  IF body.ok THEN Ret([status |-> "success", models |-> body.val]) ELSE body
    ELSE Ret([status |-> "error", error |-> HttpError(o)])

get_models_try(o) ==
    IF o.kind = "raise" THEN Raise(o.exc)
    ELSE IF o.status_code = 200
    THEN LET body == json(o.text)
         IN  IF body.ok THEN Ret([status |-> "success", models |-> body.val]) ELSE body
    ELSE Ret([status |-> "error", error |-> HttpError(o)])

get_models(o) ==
    LET r == get_models_try(o) IN
    IF r.ok THEN r
    ELSE IF IsInstance(r.exc, "Exception")
    THEN Ret([status |-> "error", error |-> StrOf(r.exc)])
    ELSE r

(* result.get("choices", [{}])[0].get("message", {}).get("content", "") *)
generated_text(result) ==
    LET choices == PyGet(result, "choices", JList(<<EmptyDict>>)) IN
    IF ~choices.ok THEN choices ELSE
    LET first == PyIndex0(choices.val) IN
    IF ~first.ok THEN first ELSE
    LET message == PyGet(first.val, "message", EmptyDict) IN
    IF ~message.ok THEN message ELSE
    PyGet(message.val, "content", EmptyStr)

generate_text_try(o) ==
    IF o.kind = "raise" THEN Raise(o.exc)
    ELSE IF o.status_code = 200
    THEN LET result == json(o.text) IN
         IF ~result.ok THEN result ELSE
         LET text == generated_text(result.val) IN
         IF ~text.ok THEN text ELSE
         Ret([status |-> "success", response |-> result.val, generated_text |-> text.val])
    ELSE Ret([status |-> "error", error |-> HttpError(o)])

generate_text(o) ==
    LET r == generate_text_try(o) IN
    IF r.ok THEN r
    ELSE IF IsInstance(r.exc, "Exception")
    THEN Ret([status |-> "error", error |-> StrOf(r.exc)])
    ELSE r

----------------------------------------------------------------------------
(* The process: main and run_comprehensive_test *)

SessionTimeout == 30
SimpleMaxTokens == 50
ComplexMaxTokens == 150
SimplePreview == 100
ComplexPreview == 150

NoTimeout == <<>>
NotExited == <<>>

DefaultBaseUrl == <<"http://", "localhost:8000">>

(* sys.argv[1:]: no argument, a URL with a trailing slash, a URL with no scheme *)
Argv == {<<>>, <<<<"http://", "localhost:8000", "/">>>>, <<<<"localhost:8000">>>>}

RECURSIVE rstrip(_, _)
rstrip(s, ch) ==
    IF Len(s) > 0 /\ s[Len(s)] = ch THEN rstrip(SubSeq(s, 1, Len(s) - 1), ch) ELSE s

HasScheme(url) == Len(url) > 0 /\ url[1] \in {"http://", "https://"}

NoOutcome == [kind |-> "none", status_code |-> 0, text |-> "", exc |-> "none"]
Idle == [st |-> "idle", o |-> NoOutcome]
Pending == [st |-> "pending", o |-> NoOutcome]
Done(o) == [st |-> "done", o |-> o]

NoProbe == [op |-> "none", o |-> NoOutcome, r |-> Raise("none")]

ChatPayload(prompt, max_tokens, temperature) ==
    <<[model |-> "Qwen/Qwen3-8B", messages |-> <<[role |-> "user", content |-> prompt]>>,
       max_tokens |-> max_tokens, temperature |-> temperature, stream |-> FALSE]>>

(* The request each probe hands to the session.  None of the three calls  *)
(* passes a timeout argument, and requests reads the timeout of a call    *)
(* from that argument only: the attribute set on the session is not used. *)
health_request == [method |-> "GET", path |-> "/health", url |-> base_url \o <<"/health">>,
                   timeout |-> NoTimeout, payload |-> <<>>]

models_request == [method |-> "GET", path |-> "/v1/models", url |-> base_url \o <<"/v1/models">>,
                   timeout |-> NoTimeout, payload |-> <<>>]

chat_request(prompt, max_tokens, temperature) ==
    [method |-> "POST", path |-> "/v1/chat/completions",
     url |-> base_url \o <<"/v1/chat/completions">>,
     timeout |-> NoTimeout, payload |-> ChatPayload(prompt, max_tokens, temperature)]

RequestAt(p) ==
    CASE p = "health" -> health_request
      [] p = "models" -> models_request
      [] p = "simple" -> chat_request("Hello! Please respond with a brief greeting.",
                                      SimpleMaxTokens, "0.7")
      [] p = "complex" -> chat_request("Explain the concept of artificial intelligence in 2-3 sentences.",
                                       ComplexMaxTokens, "0.5")

(* A call that sends its request a second time. *)
Issue_with_retry(log, req) == Append(Append(log, req), req)

(* One call of session.get / session.post puts one request on the wire. *)
Issue(log, req) == Append(log, req)

BodiesFor(path) ==
    CASE path = "/health" -> HealthBodies
      [] path = "/v1/models" -> ModelsBodies
      [] OTHER -> ChatBodies

(* What the network can answer to a request that is on the wire: a timeout *)
(* exception needs a timeout on the request.                               *)
NetOutcomes(req) ==
    {Response(c, b) : c \in StatusCodes, b \in BodiesFor(req.path)}
        \cup {Raised(e) : e \in TransportErrors}
        \cup (IF req.timeout # NoTimeout THEN {Raised(e) : e \in TimeoutErrors} ELSE {})

ErrorOf(res) == IF "error" \in DOMAIN res THEN res.error ELSE <<"Unknown error">>
StatusOf(res) == IF "status" \in DOMAIN res THEN res.status ELSE "unknown"

Printed(lines) == [lines |-> lines, exc |-> "none"]
Failed(lines, e) == [lines |-> lines, exc |-> e]

(* for model in ...: print(f"   - {model.get('id', 'Unknown')}") *)
RECURSIVE model_lines(_, _, _)
model_lines(items, i, lines) ==
    IF i > Len(items) THEN Printed(lines)
    ELSE LET id == PyGet(items[i], "id", JStr(<<"U", "n", "k", "n", "o", "w", "n">>)) IN
         IF ~id.ok THEN Failed(lines, id.exc)
         ELSE model_lines(items, i + 1, Append(lines, <<"-", id.val>>))

(* What run_comprehensive_test prints about models_result. *)
models_report(res) ==
    IF res.status = "success"
    THEN LET data == PyGet(res.models, "data", JList(<<>>)) IN
         IF ~data.ok THEN Failed(<<>>, data.exc) ELSE
         LET n == PyLen(data.val) IN
         IF ~n.ok THEN Failed(<<>>, n.exc) ELSE
         LET it == PyIter(data.val) IN
         IF ~it.ok THEN Failed(<< <<"Found", n.val>> >>, it.exc)
         ELSE model_lines(it.val, 1, << <<"Found", n.val>> >>)
    ELSE Printed(<< <<"Error", ErrorOf(res)>> >>)

(* What run_comprehensive_test prints about a generation result. *)
generation_report(res, preview) ==
    IF res.status = "success"
    THEN LET text == IF "generated_text" \in DOMAIN res THEN res.generated_text ELSE EmptyStr IN
         LET head == PySlice(text, preview) IN
         IF ~head.ok THEN Failed(<<>>, head.exc) ELSE
         LET n == PyLen(text) IN
         IF ~n.ok THEN Failed(<<>>, n.exc)
         ELSE Printed(<< <<"Generated", head.val, IF n.val > preview THEN "..." ELSE "">> >>)
    ELSE Printed(<< <<"Error", ErrorOf(res)>> >>)

(* The run going on to the models probe whatever the health probe returned. *)
after_health_without_return(status) == "models"

(* if health_result['status'] != 'healthy': return results *)
after_health(status) == IF status # "healthy" THEN "summary" ELSE "models"

Passed(res) == StatusOf(res) \in {"success", "healthy"}
successful_tests == Cardinality({i \in DOMAIN results : Passed(results[i].result)})
total_tests == Len(results)
main_return == IF successful_tests = total_tests THEN 0 ELSE 1

summary_lines ==
    [i \in DOMAIN results |-> <<IF Passed(results[i].result) THEN "pass" ELSE "fail",
                                results[i].name, StatusOf(results[i].result)>>]
        \o << <<"Results", successful_tests, total_tests>>,
              IF successful_tests = total_tests
              THEN <<"All tests passed! vLLM is working correctly.">>
              ELSE <<"Some tests failed. Check the errors above.">> >>

Init ==
    /\ pc = "main"
    /\ base_url = <<>>
    /\ session = [created |-> FALSE, timeout |-> NoTimeout]
    /\ net = Idle
    /\ sent = <<>>
    /\ calls = 0
    /\ results = <<>>
    /\ stdout = <<>>
    /\ uncaught = "none"
    /\ exit_code = NotExited
    /\ probe = NoProbe

(* An exception leaves main: the interpreter prints the traceback and exits 1. *)
Crash(e, lines) ==
    /\ uncaught' = e
    /\ exit_code' = <<1>>
    /\ stdout' = stdout \o lines
    /\ pc' = "exited"

(* main up to the first probe: the checker is built and the run begins. *)
Main ==
    /\ pc = "main"
    /\ \E args \in Argv :
          base_url' = rstrip(IF Len(args) > 0 THEN args[1] ELSE DefaultBaseUrl, "/")
    /\ session' = [created |-> TRUE, timeout |-> <<SessionTimeout>>]
    /\ stdout' = stdout \o << <<"vLLM Health Check and Test Script">>,
                              <<"Checking vLLM service...">>, <<"1. Health Check...">> >>
    /\ pc' = "health"
    /\ UNCHANGED <<net, sent, calls, results, uncaught, exit_code, probe>>

(* A probe method is entered and calls session.get / session.post.  A URL  *)
(* without a scheme is rejected before anything is sent.                   *)
SendRequest ==
    /\ pc \in {"health", "models", "simple", "complex"}
    /\ net.st = "idle"
    /\ calls' = calls + 1
    /\ LET req == RequestAt(pc) IN
          IF HasScheme(req.url)
          THEN sent' = Issue(sent, req) /\ net' = Pending
          ELSE sent' = sent /\ net' = Done(Raised("InvalidSchema"))
    /\ UNCHANGED <<pc, base_url, session, results, stdout, uncaught, exit_code, probe>>

(* The network answers the pending request.  It may also never answer. *)
Deliver ==
    /\ net.st = "pending"
    /\ \E o \in NetOutcomes(sent[Len(sent)]) : net' = Done(o)
    /\ UNCHANGED <<pc, base_url, session, sent, calls, results, stdout, uncaught, exit_code, probe>>

(* Test 1: check_health returns; the run stops here unless it is healthy. *)
HealthReturns ==
    /\ pc = "health"
    /\ net.st = "done"
    /\ net' = Idle
    /\ LET r == check_health(net.o) IN
          IF ~r.ok
          THEN Crash(r.exc, <<>>) /\ UNCHANGED results
          ELSE /\ results' = Append(results, [name |-> "health", result |-> r.val])
               /\ pc' = after_health(r.val.status)
               /\ stdout' = stdout \o << <<"Status", r.val.status>> >>
                                   \o (IF r.val.status # "healthy"
                                       THEN << <<"Error", ErrorOf(r.val)>> >>
                                       ELSE << <<"2. Getting available models...">> >>)
               /\ UNCHANGED <<uncaught, exit_code>>
    /\ UNCHANGED <<base_url, session, sent, calls, probe>>

(* Test 2: get_models returns and its models are listed. *)
ModelsReturns ==
    /\ pc = "models"
    /\ net.st = "done"
    /\ net' = Idle
    /\ LET r == get_models(net.o) IN
          IF ~r.ok
          THEN Crash(r.exc, <<>>) /\ UNCHANGED results
          ELSE /\ results' = Append(results, [name |-> "models", result |-> r.val])
               /\ LET rep == models_report(r.val) IN
                     IF rep.exc # "none"
                     THEN Crash(rep.exc, rep.lines)
                     ELSE /\ stdout' = stdout \o rep.lines \o << <<"3. Testing text generation...">> >>
                          /\ pc' = "simple"
                          /\ UNCHANGED <<uncaught, exit_code>>
    /\ UNCHANGED <<base_url, session, sent, calls, probe>>

(* Test 3: the simple generation returns and its text is shown. *)
SimpleReturns ==
    /\ pc = "simple"
    /\ net.st = "done"
    /\ net' = Idle
    /\ LET r == generate_text(net.o) IN
          IF ~r.ok
          THEN Crash(r.exc, <<>>) /\ UNCHANGED results
          ELSE /\ results' = Append(results, [name |-> "simple_generation", result |-> r.val])
               /\ LET rep == generation_report(r.val, SimplePreview) IN
                     IF rep.exc # "none"
                     THEN Crash(rep.exc, rep.lines)
                     ELSE /\ stdout' = stdout \o rep.lines
                                           \o << <<"4. Testing complex text generation...">> >>
                          /\ pc' = "complex"
                          /\ UNCHANGED <<uncaught, exit_code>>
    /\ UNCHANGED <<base_url, session, sent, calls, probe>>

(* Test 4: the complex generation returns; run_comprehensive_test returns. *)
ComplexReturns ==
    /\ pc = "complex"
    /\ net.st = "done"
    /\ net' = Idle
    /\ LET r == generate_text(net.o) IN
          IF ~r.ok
          THEN Crash(r.exc, <<>>) /\ UNCHANGED results
          ELSE /\ results' = Append(results, [name |-> "complex_generation", result |-> r.val])
               /\ LET rep == generation_report(r.val, ComplexPreview) IN
                     IF rep.exc # "none"
                     THEN Crash(rep.exc, rep.lines)
                     ELSE /\ stdout' = stdout \o rep.lines
                          /\ pc' = "summary"
                          /\ UNCHANGED <<uncaught, exit_code>>
    /\ UNCHANGED <<base_url, session, sent, calls, probe>>

(* main counts the tests that passed, and the process exits with its return value. *)
Summary ==
    /\ pc = "summary"
    /\ stdout' = stdout \o summary_lines
    /\ exit_code' = <<main_return>>
    /\ pc' = "exited"
    /\ UNCHANGED <<base_url, session, net, sent, calls, results, uncaught, probe>>

Next ==
    \/ Main
    \/ SendRequest
    \/ Deliver
    \/ HealthReturns
    \/ ModelsReturns
    \/ SimpleReturns
    \/ ComplexReturns
    \/ Summary

Spec == Init /\ [][Next]_vars

----------------------------------------------------------------------------
(* One probe method applied to one outcome of its HTTP call *)

RunVars == <<pc, base_url, session, net, sent, calls, results, stdout, uncaught, exit_code>>

Probe_check_health ==
    /\ probe.op = "none"
    /\ \E o \in AllOutcomes : probe' = [op |-> "check_health", o |-> o, r |-> check_health(o)]
    /\ UNCHANGED RunVars

Probe_get_models ==
    /\ probe.op = "none"
    /\ \E o \in AllOutcomes : probe' = [op |-> "get_models", o |-> o, r |-> get_models(o)]
    /\ UNCHANGED RunVars

Probe_generate_text ==
    /\ probe.op = "none"
    /\ \E o \in AllOutcomes : probe' = [op |-> "generate_text", o |-> o, r |-> generate_text(o)]
    /\ UNCHANGED RunVars

ProbeNext == Probe_check_health \/ Probe_get_models \/ Probe_generate_text

ProbeSpec == Init /\ [][ProbeNext]_vars

----------------------------------------------------------------------------
(* check_openwebui_models.py: check_openwebui_models, test_model_generation *)
(* and the script body.  The process uses pc, net, sent, calls, stdout and  *)
(* exit_code; a printed line is a record naming the check it reports, its   *)
(* mark (ok, fail, warn, info, verdict), its text and the values shown.     *)

MetadataTimeout == 10
GenerationTimeout == 30
OWMaxTokens == 10

OWLine(check, mark, text, args) == [check |-> check, mark |-> mark, text |-> text, args |-> args]

(* v[key] for a string key *)
PyItem(v, key) ==
    CASE v.t = "obj" -> IF key \in DOMAIN v.fields THEN Ret(v.fields[key]) ELSE Raise("KeyError")
      [] OTHER -> Raise("TypeError")

OWBaseUrl == <<"http://", "localhost:8080">>
VllmUrl == <<"http://", "localhost:8000">>

OWPayload ==
    <<[model |-> "Qwen/Qwen3-8B",
       messages |-> <<[role |-> "user", content |-> "Hello! Please respond with just 'Hi there!'"]>>,
       max_tokens |-> OWMaxTokens, temperature |-> "0.1"]>>

(* The request each check makes; every one passes its timeout. *)
OWRequestAt(p) ==
    CASE p = "ow_web" -> [method |-> "GET", path |-> "/", url |-> OWBaseUrl,
                          timeout |-> <<MetadataTimeout>>, payload |-> <<>>]
      [] p = "ow_vllm" -> [method |-> "GET", path |-> "/v1/models", url |-> VllmUrl \o <<"/v1/models">>,
                           timeout |-> <<MetadataTimeout>>, payload |-> <<>>]
      [] p = "ow_health" -> [method |-> "GET", path |-> "/health", url |-> OWBaseUrl \o <<"/health">>,
                             timeout |-> <<MetadataTimeout>>, payload |-> <<>>]
      [] p = "ow_page" -> [method |-> "GET", path |-> "/models", url |-> OWBaseUrl \o <<"/models">>,
                           timeout |-> <<MetadataTimeout>>, payload |-> <<>>]
      [] p = "ow_gen" -> [method |-> "POST", path |-> "/v1/chat/completions",
                          url |-> VllmUrl \o <<"/v1/chat/completions">>,
                          timeout |-> <<GenerationTimeout>>, payload |-> OWPayload]

PageBodies == {"", "<html></html>"}
OWStatusCodes == StatusCodes \cup {401, 403}

OWBodiesFor(path) ==
    CASE path \in {"/", "/models"} -> PageBodies
      [] path = "/health" -> HealthBodies
      [] path = "/v1/models" -> ModelsBodies
      [] OTHER -> ChatBodies

OWNetOutcomes(req) ==
    {Response(c, b) : c \in OWStatusCodes, b \in OWBodiesFor(req.path)}
        \cup {Raised(e) : e \in TransportErrors}
        \cup (IF req.timeout # NoTimeout THEN {Raised(e) : e \in TimeoutErrors} ELSE {})

(* What a check printed and the value it leaves: passed is False where the *)
(* code returns False, True where it goes on.                              *)
Report(lines, passed) == [lines |-> lines, passed |-> passed]

(* Test 1: the web interface. *)
web_check(o) ==
    IF o.kind = "raise"
    THEN Report(<<OWLine("web", "fail", "Cannot access OpenWebUI", StrOf(o.exc))>>, FALSE)
    ELSE IF o.status_code = 200
    THEN Report(<<OWLine("web", "ok", "OpenWebUI web interface is accessible", <<>>)>>, TRUE)
    ELSE Report(<<OWLine("web", "fail", "OpenWebUI returned status code", <<o.status_code>>)>>, FALSE)

(* for model in models['data']: print(f"   - {model['id']} (max_len: ...)") *)
RECURSIVE vllm_model_lines(_, _, _)
vllm_model_lines(items, i, lines) ==
    IF i > Len(items) THEN Printed(lines)
    ELSE LET id == PyItem(items[i], "id") IN
         IF ~id.ok THEN Failed(lines, id.exc) ELSE
         LET len == PyGet(items[i], "max_model_len", JStr(<<"u", "n", "k", "n", "o", "w", "n">>)) IN
         IF ~len.ok THEN Failed(lines, len.exc)
         ELSE vllm_model_lines(items, i + 1,
                               Append(lines, OWLine("vllm", "info", "-", <<id.val, len.val>>)))

(* The try body of Test 2 on a 200 response. *)
vllm_check_try(o) ==
    LET models == json(o.text) IN
    IF ~models.ok THEN Failed(<<>>, models.exc) ELSE
    LET data == PyItem(models.val, "data") IN
    IF ~data.ok THEN Failed(<<>>, data.exc) ELSE
    LET n == PyLen(data.val) IN
    IF ~n.ok THEN Failed(<<>>, n.exc) ELSE
    LET it == PyIter(data.val)
        head == <<OWLine("vllm", "ok", "vLLM has model(s)", <<n.val>>)>> IN
    IF ~it.ok THEN Failed(head, it.exc) ELSE vllm_model_lines(it.val, 1, head)

(* Test 2: the models of vLLM. *)
vllm_check(o) ==
    IF o.kind = "raise"
    THEN Report(<<OWLine("vllm", "fail", "Cannot access vLLM", StrOf(o.exc))>>, FALSE)
    ELSE IF o.status_code = 200
    THEN LET r == vllm_check_try(o) IN
         IF r.exc = "none" THEN Report(r.lines, TRUE)
         ELSE Report(Append(r.lines, OWLine("vllm", "fail", "Cannot access vLLM", StrOf(r.exc))), FALSE)
    ELSE Report(<<OWLine("vllm", "fail", "vLLM returned status code", <<o.status_code>>)>>, FALSE)

(* Test 3: the health of OpenWebUI; a failure is a warning and the checks go on. *)
ow_health_check(o) ==
    IF o.kind = "raise"
    THEN Report(<<OWLine("health", "warn", "OpenWebUI health check failed", StrOf(o.exc))>>, TRUE)
    ELSE IF o.status_code = 200
    THEN Report(<<OWLine("health", "ok", "OpenWebUI health check passed", <<>>)>>, TRUE)
    ELSE Report(<<OWLine("health", "warn", "OpenWebUI health check returned", <<o.status_code>>)>>, TRUE)

(* Test 4: the models page; a failure is a warning and the checks go on. *)
page_check(o) ==
    IF o.kind = "raise"
    THEN Report(<<OWLine("page", "warn", "Cannot access OpenWebUI models page", StrOf(o.exc))>>, TRUE)
    ELSE IF o.status_code \in {200, 401, 403}
    THEN Report(<<OWLine("page", "ok", "OpenWebUI models page is accessible", <<>>)>>, TRUE)
    ELSE Report(<<OWLine("page", "warn", "OpenWebUI models page returned", <<o.status_code>>)>>, TRUE)

(* result["choices"][0]["message"]["content"] *)
ow_generated_text(result) ==
    LET choices == PyItem(result, "choices") IN
    IF ~choices.ok THEN choices ELSE
    LET first == PyIndex0(choices.val) IN
    IF ~first.ok THEN first ELSE
    LET message == PyItem(first.val, "message") IN
    IF ~message.ok THEN message ELSE
    PyItem(message.val, "content")

(* test_model_generation once its request is answered. *)
test_model_generation(o) ==
    IF o.kind = "raise"
    THEN Report(<<OWLine("generation", "fail", "Model generation test failed", StrOf(o.exc))>>, FALSE)
    ELSE IF o.status_code = 200
    THEN LET result == json(o.text) IN
         IF ~result.ok
         THEN Report(<<OWLine("generation", "fail", "Model generation test failed", StrOf(result.exc))>>, FALSE)
         ELSE LET text == ow_generated_text(result.val) IN
              IF ~text.ok
              THEN Report(<<OWLine("generation", "fail", "Model generation test failed", StrOf(text.exc))>>, FALSE)
              ELSE Report(<<OWLine("generation", "ok", "Model generation test successful!", <<>>),
                            OWLine("generation", "info", "Generated", <<text.val>>)>>, TRUE)
    ELSE Report(<<OWLine("generation", "fail", "Model generation failed", <<o.status_code>>),
                  OWLine("generation", "info", "Response", <<o.text>>)>>, FALSE)

AllChecksPassedText == "All checks passed! OpenWebUI should have access to the vLLM model."

(* The two verdicts of the script body. *)
passed_verdict == <<OWLine("none", "verdict", AllChecksPassedText, <<>>)>>
failed_verdict == <<OWLine("none", "verdict", "Some checks failed. Check the errors above.", <<>>)>>

(* The summary and next steps check_openwebui_models prints before it returns True. *)
ow_summary ==
    <<OWLine("none", "info", "Summary", <<>>),
      OWLine("none", "info", "vLLM is running with Qwen/Qwen3-8B model", <<>>),
      OWLine("none", "info", "OpenWebUI is running and accessible", <<>>),
      OWLine("none", "info", "Environment variables are configured correctly", <<>>),
      OWLine("none", "info", "Network connectivity between containers is working", <<>>),
      OWLine("none", "info", "Next Steps", <<>>)>>

OWInit ==
    /\ pc = "ow_start"
    /\ base_url = <<>>
    /\ session = [created |-> FALSE, timeout |-> NoTimeout]
    /\ net = Idle
    /\ sent = <<>>
    /\ calls = 0
    /\ results = <<>>
    /\ stdout = <<>>
    /\ uncaught = "none"
    /\ exit_code = NotExited
    /\ probe = NoProbe

OWFixed == <<base_url, session, results, uncaught, probe>>

(* The script body up to the first request of check_openwebui_models. *)
OW_Start ==
    /\ pc = "ow_start"
    /\ stdout' = stdout \o <<OWLine("none", "info", "OpenWebUI Model Availability Check", <<>>),
                             OWLine("none", "info", "Checking OpenWebUI model availability...", <<>>)>>
    /\ pc' = "ow_web"
    /\ UNCHANGED <<net, sent, calls, exit_code>>
    /\ UNCHANGED OWFixed

(* requests.get / requests.post *)
OW_Send ==
    /\ pc \in {"ow_web", "ow_vllm", "ow_health", "ow_page", "ow_gen"}
    /\ net.st = "idle"
    /\ calls' = calls + 1
    /\ sent' = Issue(sent, OWRequestAt(pc))
    /\ net' = Pending
    /\ UNCHANGED <<pc, stdout, exit_code>>
    /\ UNCHANGED OWFixed

(* The network answers the pending request, with a timeout at the latest. *)
OW_Deliver ==
    /\ net.st = "pending"
    /\ \E o \in OWNetOutcomes(sent[Len(sent)]) : net' = Done(o)
    /\ UNCHANGED <<pc, sent, calls, stdout, exit_code>>
    /\ UNCHANGED OWFixed

(* A check that returns False ends check_openwebui_models; the script body *)
(* prints the failed verdict and the process ends.                         *)
OW_ReturnFalse(lines) ==
    /\ stdout' = stdout \o lines \o failed_verdict
    /\ pc' = "exited"
    /\ exit_code' = <<0>>

OW_WebReturns ==
    /\ pc = "ow_web"
    /\ net.st = "done"
    /\ net' = Idle
    /\ LET r == web_check(net.o) IN
          IF r.passed
          THEN stdout' = stdout \o r.lines /\ pc' = "ow_vllm" /\ UNCHANGED exit_code
          ELSE OW_ReturnFalse(r.lines)
    /\ UNCHANGED <<sent, calls>>
    /\ UNCHANGED OWFixed

OW_VllmReturns ==
    /\ pc = "ow_vllm"
    /\ net.st = "done"
    /\ net' = Idle
    /\ LET r == vllm_check(net.o) IN
          IF r.passed
          THEN stdout' = stdout \o r.lines /\ pc' = "ow_health" /\ UNCHANGED exit_code
          ELSE OW_ReturnFalse(r.lines)
    /\ UNCHANGED <<sent, calls>>
    /\ UNCHANGED OWFixed

OW_HealthReturns ==
    /\ pc = "ow_health"
    /\ net.st = "done"
    /\ net' = Idle
    /\ stdout' = stdout \o ow_health_check(net.o).lines
    /\ pc' = "ow_page"
    /\ UNCHANGED <<sent, calls, exit_code>>
    /\ UNCHANGED OWFixed

(* Test 4 ends check_openwebui_models, which returns True; the script body *)
(* goes on to test_model_generation.                                       *)
OW_PageReturns ==
    /\ pc = "ow_page"
    /\ net.st = "done"
    /\ net' = Idle
    /\ stdout' = stdout \o page_check(net.o).lines \o ow_summary
                        \o <<OWLine("none", "info", "Testing model generation...", <<>>)>>
    /\ pc' = "ow_gen"
    /\ UNCHANGED <<sent, calls, exit_code>>
    /\ UNCHANGED OWFixed

(* test_model_generation returns; its value is dropped and the passed     *)
(* verdict is printed.                                                     *)
OW_GenerationReturns ==
    /\ pc = "ow_gen"
    /\ net.st = "done"
    /\ net' = Idle
    /\ stdout' = stdout \o test_model_generation(net.o).lines \o passed_verdict
    /\ pc' = "exited"
    /\ exit_code' = <<0>>
    /\ UNCHANGED <<sent, calls>>
    /\ UNCHANGED OWFixed

OWNext ==
    \/ OW_Start
    \/ OW_Send
    \/ OW_Deliver
    \/ OW_WebReturns
    \/ OW_VllmReturns
    \/ OW_HealthReturns
    \/ OW_PageReturns
    \/ OW_GenerationReturns

OWSpec == OWInit /\ [][OWNext]_vars

----------------------------------------------------------------------------
(* Properties *)

Returned == probe.r.ok
ProbeStatus == probe.r.val.status
IsResponse == probe.o.kind = "response"
RefusedConnection == Raised("ConnectionError")

(* The body parses to a JSON object whose choices entry is absent or is the empty array. *)
ChoicesMissingOrEmpty(text) ==
    LET j == json(text) IN
    /\ j.ok
    /\ j.val.t = "obj"
    /\ ("choices" \in DOMAIN j.val.fields => j.val.fields.choices = JList(<<>>))

(* C1: a 200 response to the chat completion whose JSON body has a missing *)
(* or an empty choices array makes generate_text return status success     *)
(* with the empty string as generated text.                                *)
C1_EmptyChoicesGiveEmptyText ==
    (/\ probe.op = "generate_text"
     /\ IsResponse
     /\ probe.o.status_code = 200
     /\ ChoicesMissingOrEmpty(probe.o.text))
    => (/\ Returned
        /\ ProbeStatus = "success"
        /\ probe.r.val.generated_text = EmptyStr)

HealthStatuses == {"healthy", "unhealthy", "unreachable", "timeout", "error"}

(* C2: whatever the outcome of GET /health, check_health raises nothing    *)
(* and returns a result whose status is one of the five health statuses.   *)
C2_HealthAlwaysClassified ==
    probe.op = "check_health" => (Returned /\ ProbeStatus \in HealthStatuses)

(* check_health has turned the parse failure of a 200 body that is not JSON into a result. *)
C2_Witness_NonJsonBodyClassified ==
    /\ probe.op = "check_health"
    /\ probe.o = Response(200, "OK")
    /\ Returned
    /\ ProbeStatus = "error"

(* C3: for a received response check_health returns healthy on status 200  *)
(* whatever the body, and unhealthy with the status code and body text on  *)
(* every other status.                                                     *)
C3_HealthFollowsStatusCode ==
    (probe.op = "check_health" /\ IsResponse)
    => (/\ Returned
        /\ IF probe.o.status_code = 200
           THEN ProbeStatus = "healthy"
           ELSE ProbeStatus = "unhealthy" /\ probe.r.val.error = HttpError(probe.o))

(* C4 as stated: on a refused connection each of the three probes returns  *)
(* the unreachable classification.                                         *)
C4_RefusedIsUnreachableInEveryProbe ==
    (probe.op # "none" /\ probe.o = RefusedConnection)
    => (Returned /\ ProbeStatus = "unreachable")

(* C4 amended: on a refused connection check_health returns unreachable,   *)
(* while get_models and generate_text return the generic error status      *)
(* carrying the text of the exception; none of the three raises.           *)
C4_RefusedClassification ==
    (probe.op # "none" /\ probe.o = RefusedConnection)
    => (/\ Returned
        /\ probe.op = "check_health" => ProbeStatus = "unreachable"
        /\ probe.op \in {"get_models", "generate_text"}
              => (ProbeStatus = "error" /\ probe.r.val.error = StrOf("ConnectionError")))

C4_Witness_ModelsRefused ==
    /\ probe.op = "get_models"
    /\ probe.o = RefusedConnection
    /\ Returned
    /\ ProbeStatus = "error"

(* C5: no exception leaves a run of check_vllm.py. *)
C5_NoUncaughtException == uncaught = "none"

ResultOf(name) ==
    {results[i].result : i \in {j \in DOMAIN results : results[j].name = name}}

AllFourSucceeded ==
    /\ \E r \in ResultOf("health") : r.status = "healthy"
    /\ \E r \in ResultOf("models") : r.status = "success"
    /\ \E r \in ResultOf("simple_generation") : r.status = "success"
    /\ \E r \in ResultOf("complex_generation") : r.status = "success"

(* C6: the process ends with exit code 0 exactly when the health probe,    *)
(* the models probe and both generation probes succeeded, and with 1       *)
(* otherwise.                                                              *)
C6_ExitCodeReflectsProbes ==
    pc = "exited" => exit_code = (IF AllFourSucceeded THEN <<0>> ELSE <<1>>)

(* C7: every HTTP request that is sent carries a timeout, so that the      *)
(* network always has an answer for it.                                    *)
C7_EveryRequestHasTimeout ==
    \A i \in DOMAIN sent : sent[i].timeout # NoTimeout

NoModels == "models" \notin DOMAIN probe.r.val

(* The 200 outcomes of get_models, on which C8 and its amendment agree:    *)
(* success with the parsed body, an empty data array being an empty list   *)
(* of models; a body that does not parse is an exception.                  *)
ModelsOn200 ==
    LET j == json(probe.o.text) IN
    IF j.ok
    THEN /\ ProbeStatus = "success"
         /\ probe.r.val.models = j.val
         /\ probe.o.text = "{\"data\":[]}" => PyIter(probe.r.val.models.fields.data) = Ret(<<>>)
    ELSE ProbeStatus = "error" /\ NoModels

(* C8 as stated: any status other than 200 gives Unhealthy with no models. *)
C8_ModelsOtherStatusIsUnhealthy ==
    probe.op = "get_models"
    => (/\ Returned
        /\ IF ~IsResponse THEN ProbeStatus = "error" /\ NoModels
           ELSE IF probe.o.status_code = 200 THEN ModelsOn200
           ELSE ProbeStatus = "unhealthy" /\ NoModels)

(* C8 amended: get_models returns success with the parsed body on status   *)
(* 200; on any other status it returns the error status, carrying the      *)
(* status code and body text, with no models; on any exception it returns  *)
(* the error status with no models.                                        *)
C8_ModelsClassification ==
    probe.op = "get_models"
    => (/\ Returned
        /\ IF ~IsResponse THEN ProbeStatus = "error" /\ NoModels
           ELSE IF probe.o.status_code = 200 THEN ModelsOn200
           ELSE ProbeStatus = "error" /\ probe.r.val.error = HttpError(probe.o) /\ NoModels)

C8_Witness_ModelsOtherStatus ==
    /\ probe.op = "get_models"
    /\ probe.o = Response(204, "{\"data\":[]}")
    /\ Returned
    /\ ProbeStatus = "error"

ProbeOrder == <<"health", "models", "simple", "complex">>

HealthEntry == results[1].name = "health"
HealthIsHealthy == Len(results) >= 1 /\ HealthEntry /\ results[1].result.status = "healthy"

(* C9: the requests of a run are sent in the order health, models, simple  *)
(* generation, complex generation; none but the first is sent before the   *)
(* health probe has returned healthy; and a run whose health probe is not  *)
(* healthy sends nothing more and holds the health entry only.             *)
C9_ProbeOrder ==
    /\ Len(sent) <= Len(ProbeOrder)
    /\ \A i \in DOMAIN sent : sent[i] = RequestAt(ProbeOrder[i])
    /\ Len(sent) >= 2 => HealthIsHealthy
    /\ pc \in {"models", "simple", "complex"} => HealthIsHealthy
    /\ (Len(results) >= 1 /\ ~HealthIsHealthy)
          => (/\ HealthEntry
              /\ Len(results) = 1
              /\ Len(sent) <= 1
              /\ pc \in {"summary", "exited"})

(* A run has sent all four requests and returned. *)
C9_Witness_FullRun ==
    /\ pc = "exited"
    /\ uncaught = "none"
    /\ Len(sent) = 4

(* C10: a probe method sends at most one request and yields one result, so *)
(* a run sends at most four requests.                                      *)
C10_NoRetry ==
    /\ Len(sent) <= calls
    /\ calls <= 4
    /\ Len(results) = (IF net.st = "idle" THEN calls ELSE calls - 1)

(* A run in which probes failed has ended after four requests. *)
C10_Witness_FailuresNotRetried ==
    /\ pc = "exited"
    /\ Len(sent) = 4
    /\ calls = 4
    /\ results[2].result.status = "error"
    /\ results[3].result.status = "error"

(* C11: once the health probe has returned healthy, the run goes on to    *)
(* the models probe and both generation probes whatever they return, and   *)
(* ends with all four requests sent and exactly four entries in results.   *)
C11_AllProbesAfterHealthy ==
    (pc = "exited" /\ HealthIsHealthy)
    => (/\ Len(sent) = Len(ProbeOrder)
        /\ Len(results) = Len(ProbeOrder)
        /\ [i \in DOMAIN results |-> results[i].name]
              = <<"health", "models", "simple_generation", "complex_generation">>)

OWChecks == {"web", "vllm", "health", "page", "generation"}

AllChecksPassedPrinted ==
    \E i \in DOMAIN stdout : stdout[i].text = AllChecksPassedText

(* The check was made and reported as passed, with no failure or warning. *)
CheckSucceeded(c) ==
    /\ \E i \in DOMAIN stdout : stdout[i].check = c /\ stdout[i].mark = "ok"
    /\ \A i \in DOMAIN stdout : stdout[i].check = c => stdout[i].mark \notin {"fail", "warn"}

(* C12: check_openwebui_models.py prints "All checks passed" only in runs  *)
(* where the web-interface check, the vLLM models check, the OpenWebUI     *)
(* health check, the models-page check and the generation test succeeded.  *)
C12_VerdictOnlyWhenAllSucceeded ==
    AllChecksPassedPrinted => \A c \in OWChecks : CheckSucceeded(c)

====
